---- MODULE Spec2Model ----
(***************************************************************************)
(* The wager session engine of AntariaCasinoBot (src/main.py): the         *)
(* in-memory session store self.pending_pvp, its persisted copy (the       *)
(* GlobalState row "pending_pvp"), the participants' balances, the house   *)
(* balance, the update handlers that create, advance, settle and cash out  *)
(* series, the task generic_v2_pvp_loop, and the periodic job              *)
(* check_expired_challenges.                                               *)
(*                                                                         *)
(* Money is in cents.  Time is in units of 300 seconds.  All games use the *)
(* dice emoji in one chat, so a roll's score is the die value.             *)
(*                                                                         *)
(* Scheduling.  The Application is built with its defaults (main.py:167),  *)
(* so update handlers run one at a time: h is the handler in flight.  The  *)
(* job queue's sweeper (sw) and the tasks made with asyncio.create_task    *)
(* (loops) run on the same event loop and take their steps whenever the    *)
(* handler in flight is suspended at an await.  One action is the code     *)
(* between two awaits.                                                     *)
(*                                                                         *)
(* Objects.  A local variable `challenge` is a reference to a dict.  The   *)
(* store's dict for an id is replaced when the store is reloaded from the  *)
(* persisted copy and dropped by del; a holder of the old dict then reads  *)
(* a detached object.  The sweeper's and the loops' references are kept as *)
(* "the store's object" until such an event and as a private copy after.   *)
(***************************************************************************)
EXTENDS Integers, Sequences, FiniteSets, TLC

\* ---------------------------------------------------------------- bounds
MaxTime == 2
MaxGames == 1
MaxChallenges == 1
MaxSweeps == 1
MaxQueue == 1
MaxLoops == 1
MaxRaises == 1
MaxTargetPoints == 4

\* ------------------------------------------------------ program constants
DefaultExpiration == 1
ExtendedLimit == 3
SeriesPayoutPct == 195
HouseEdgePct == 95

\* ------------------------------------------------------------ input sets
Users == {1, 2}
Wagers == {1000}
\* the series a player sets up: rolls per round, mode, target points
Setups == {[rolls |-> 1, mode |-> "normal", pts |-> 1],
           [rolls |-> 1, mode |-> "crazy", pts |-> 2],
           [rolls |-> 2, mode |-> "normal", pts |-> 2]}
Die == {3, 6}
\* the balances the users come with
InitBalance == [u \in Users |-> IF u = 1 THEN 2000 ELSE 500]
InitBalancePvp == [u \in Users |-> IF u = 1 THEN 2000 ELSE 1000]
None == 0
\* the wagers calculate_cashout is applied to
CashoutWagers == {1000, 1600}

VARIABLES
    pending_pvp,   \* self.pending_pvp: id -> session dict
    db_pending,    \* GlobalState "pending_pvp": the persisted copy
    balance,       \* User.balance
    house,         \* GlobalState "house_balance", relative to its start
    now,           \* datetime.now()
    h,             \* the update handler in flight
    queue,         \* updates that arrived while a handler was in flight
    sw,            \* check_expired_challenges
    loops,         \* the generic_v2_pvp_loop tasks, in creation order
    hist,          \* per created session: what the ledger did for it
    last,          \* outcome of the last operation step
    nSweeps,       \* runs of the job so far
    nRaises        \* Bot API calls that raised so far

vars == <<pending_pvp, db_pending, balance, house, now, h, queue, sw, loops,
          hist, last, nSweeps, nRaises>>

\* --------------------------------------------------------------- helpers
RECURSIVE SeqSum(_)
SeqSum(s) == IF s = <<>> THEN 0 ELSE Head(s) + SeqSum(Tail(s))

Max(a, b) == IF a >= b THEN a ELSE b

Remove(f, c) == [x \in DOMAIN f \ {c} |-> f[x]]

Put(f, c, v) == [x \in DOMAIN f \cup {c} |-> IF x = c THEN v ELSE f[x]]

\* dict.get(key, default)
Get(ch, key, default) == IF key \in DOMAIN ch THEN ch[key] ELSE default

\* sums of n dice
RECURSIVE DiceSums(_)
DiceSums(n) == IF n = 0 THEN {0}
               ELSE {d + s : d \in Die, s \in DiceSums(n - 1)}

\* An id f"v2_bot_{game}_{user}_{ts}" or f"v2_pvp_{game}_{user}_{ts}".  ts
\* is the creation time in whole seconds, a finer clock than `now`.  Where
\* the creations fall in different seconds ts is the creation's serial
\* number; SpecIds takes it from the clock second of the call.
Cid(prefix, game, user, ts) == <<prefix, game, user, ts>>
IsBotId(c) == c[1] = "v2_bot_"
IsPvpId(c) == c[1] = "v2_pvp_"

Idle == [pc |-> "idle"]
SwIdle == [pc |-> "idle"]

\* ---------------------------------------------------------- ledger record
\* hist[sid]: debited/credited are the participants' money taken for and
\* given back on account of the session; terminal counts the terminal
\* effects applied to it (series payout or loss, cashout, timeout policy),
\* settled those of them that a settlement or a cashout applied; removed
\* counts its deletions from the in-memory store.
NewHist(c, w) == [cid |-> c, debited |-> w, credited |-> 0, terminal |-> 0,
                  settled |-> 0, removed |-> 0]

HDebit(hs, sid, amt) == [hs EXCEPT ![sid].debited = @ + amt]
HCredit(hs, sid, amt) == [hs EXCEPT ![sid].credited = @ + amt]
HTerminal(hs, sid) == [hs EXCEPT ![sid].terminal = @ + 1]
HSettled(hs, sid) == [hs EXCEPT ![sid].terminal = @ + 1, ![sid].settled = @ + 1]
HRemoved(hs, sid) == [hs EXCEPT ![sid].removed = @ + 1]

Issued == {hist[i].cid : i \in DOMAIN hist}

\* how many bot series and how many PvP challenges were created
BotGames == Cardinality({i \in DOMAIN hist : /\ hist[i].cid[1] = "v2_bot_"
                                             /\ hist[i].cid[2] # "series_bot"})
Challenges == Cardinality({i \in DOMAIN hist : hist[i].cid[1] = "v2_pvp_"})

\* -------------------------------------------------------- pure functions
\* the literal 1.95 of the settlements (_calculate_emoji_multiplier)
SeriesPayoutDouble(w) == w * 2
SeriesPayout(w) == (w * SeriesPayoutPct) \div 100

\* round(x, 2) of a value n / d cents. Off an exact half cent the float
\* product rounds to the nearest cent; on an exact half cent (RoundTie) it
\* lands on either side (round(0.125 * 20 * 0.95, 2) is 2.38 and
\* round(0.875 * 20 * 0.95, 2) is 16.62), see calculate_cashout_results
RoundDiv(n, d) == (2 * n + d) \div (2 * d)
RoundTie(n, d) == (2 * n) % (2 * d) = d

\* calculate_cashout: the win probability in sixteenths
CashoutProbHalf(needed_p, needed_b) == 8
CashoutProb16(needed_p, needed_b) ==
    IF needed_p = 1 /\ needed_b = 1 THEN 8
    ELSE IF needed_p = 1 /\ needed_b = 2 THEN 12
    ELSE IF needed_p = 1 /\ needed_b = 3 THEN 14
    ELSE IF needed_p = 2 /\ needed_b = 1 THEN 4
    ELSE IF needed_p = 2 /\ needed_b = 2 THEN 8
    ELSE IF needed_p = 2 /\ needed_b = 3 THEN 11
    ELSE IF needed_p = 3 /\ needed_b = 1 THEN 2
    ELSE IF needed_p = 3 /\ needed_b = 2 THEN 5
    ELSE IF needed_p = 3 /\ needed_b = 3 THEN 8
    ELSE 8

calculate_cashout_triple(p_pts, b_pts, target_pts, wager) == wager * 3
calculate_cashout(p_pts, b_pts, target_pts, wager) ==
    IF p_pts >= target_pts THEN wager * 2
    ELSE IF b_pts >= target_pts THEN 0
    ELSE Max(0, RoundDiv(CashoutProb16(target_pts - p_pts, target_pts - b_pts)
                           * (wager * 2) * HouseEdgePct, 16 * 100))

\* the values calculate_cashout can return: one value, or the two cents
\* around an exact half cent
calculate_cashout_results(p_pts, b_pts, target_pts, wager) ==
    LET v == calculate_cashout(p_pts, b_pts, target_pts, wager)
    IN  IF /\ p_pts < target_pts /\ b_pts < target_pts
           /\ RoundTie(CashoutProb16(target_pts - p_pts, target_pts - b_pts)
                         * (wager * 2) * HouseEdgePct, 16 * 100)
        THEN {v - 1, v}
        ELSE {v}

\* the round winner: "p", "b" or "none" (a draw)
RoundWin(mode, p_tot, b_tot) ==
    IF mode = "normal"
    THEN IF p_tot > b_tot THEN "p" ELSE IF b_tot > p_tot THEN "b" ELSE "none"
    ELSE IF p_tot < b_tot THEN "p" ELSE IF b_tot < p_tot THEN "b" ELSE "none"

\* ------------------------------------------------- references to sessions
\* The sweeper's object for an id of its snapshot.
SwObj(s, mem, c) == IF c \in DOMAIN s.stale THEN s.stale[c] ELSE mem[c]

\* The store's objects for `cs` are dropped or replaced: a sweeper that
\* still has them ahead in its snapshot keeps the old objects.
SwDetach(s, mem, cs) ==
    IF s.pc = "idle" THEN s
    ELSE LET keep == {s.todo[i] : i \in DOMAIN s.todo}
             fresh == (keep \cap cs \cap DOMAIN mem) \ DOMAIN s.stale
         IN  [s EXCEPT !.stale = [c \in DOMAIN s.stale \cup fresh |->
                                    IF c \in DOMAIN s.stale THEN s.stale[c]
                                    ELSE mem[c]]]

\* The same for the loops' references: att says that the loop's `challenge`
\* is the store's object, obj is the object when it is not.
LoopsDetach(ls, mem, cs) ==
    [i \in DOMAIN ls |->
        IF ls[i].att /\ ls[i].cid \in cs /\ ls[i].cid \in DOMAIN mem
        THEN [ls[i] EXCEPT !.att = FALSE, !.obj = mem[ls[i].cid]]
        ELSE ls[i]]

\* The loop's object.
LoopObj(l, mem) == IF l.att THEN mem[l.cid] ELSE l.obj

\* self.pending_pvp is reassigned or keys of it are deleted: the references
\* held elsewhere to the objects of `cs` go stale.
Detached(cs) ==
    /\ sw' = SwDetach(sw, pending_pvp, cs)
    /\ loops' = LoopsDetach(loops, pending_pvp, cs)

\* the ids of a store in dict order (insertion order: creation order)
RECURSIVE InOrder(_, _)
InOrder(mem, cs) ==
    IF cs = {} THEN <<>>
    ELSE LET c == CHOOSE x \in cs : \A y \in cs : mem[x].sid <= mem[y].sid
         IN  <<c>> \o InOrder(mem, cs \ {c})

\* Application.process_update: a new update is handled when no handler is
\* in flight and none is waiting
HandlerFree == h.pc = "idle" /\ queue = <<>>

\* ------------------------------------------------------- session records
\* start_generic_v2_bot's dict
GenericBotSessionNoEscrow(u, w, r, m, p, t, sid) ==
    [player |-> u, wager |-> w, rolls |-> r, mode |-> m, pts |-> p,
     p_pts |-> 0, b_pts |-> 0, p_rolls |-> <<>>, cur_rolls |-> 0,
     emoji_wait |-> t, wager_deducted |-> FALSE, waiting_for_emoji |-> FALSE,
     sid |-> sid]
GenericBotSession(u, w, r, m, p, t, sid) ==
    [player |-> u, wager |-> w, rolls |-> r, mode |-> m, pts |-> p,
     p_pts |-> 0, b_pts |-> 0, p_rolls |-> <<>>, cur_rolls |-> 0,
     emoji_wait |-> t, wager_deducted |-> TRUE, waiting_for_emoji |-> FALSE,
     sid |-> sid]

\* the dict of the PvP creation
GenericPvpSession(u, w, r, m, p, t, sid) ==
    [challenger |-> u, opponent |-> None, wager |-> w, rolls |-> r, mode |-> m,
     pts |-> p, p1_pts |-> 0, p2_pts |-> 0, p1_rolls |-> <<>>, p2_rolls |-> <<>>,
     waiting_p1 |-> FALSE, waiting_p2 |-> FALSE, emoji_wait |-> t,
     p1_deducted |-> TRUE, p2_deducted |-> FALSE, sid |-> sid]

\* ------------------------------------------------- start_generic_v2_bot
HasActiveBotGame(mem, u) ==
    \E c \in DOMAIN mem : IsBotId(c) /\ Get(mem[c], "player", None) = u

start_generic_v2_bot(u, w, r, m, p, q) ==
    /\ queue' = q
    /\ IF HasActiveBotGame(pending_pvp, u)
       THEN /\ last' = [op |-> "start_bot", user |-> u, wager |-> w, res |-> "active"]
            /\ UNCHANGED <<pending_pvp, db_pending, balance, hist>>
       ELSE IF w > balance[u]
       THEN /\ last' = [op |-> "start_bot", user |-> u, wager |-> w,
                        res |-> "insufficient"]
            /\ UNCHANGED <<pending_pvp, db_pending, balance, hist>>
       ELSE LET sid == Len(hist) + 1
                cid == Cid("v2_bot_", "dice", u, sid)
                mem == Put(pending_pvp, cid, GenericBotSession(u, w, r, m, p, now, sid))
            IN  /\ BotGames < MaxGames
                /\ balance' = [balance EXCEPT ![u] = @ - w]
                /\ pending_pvp' = mem
                /\ db_pending' = mem
                /\ hist' = Append(hist, NewHist(cid, w))
                /\ last' = [op |-> "start_bot", user |-> u, wager |-> w, res |-> "ok",
                            cid |-> cid]
    /\ UNCHANGED <<house, now, h, sw, loops, nSweeps, nRaises>>

StartGenericV2Bot ==
    \E u \in Users, w \in Wagers, s \in Setups :
        HandlerFree /\ start_generic_v2_bot(u, w, s.rolls, s.mode, s.pts, queue)

\* ------------------------------------- button_callback: v2_send_emoji_<cid>
v2_send_emoji(u, c, q) ==
    /\ queue' = q
    /\ IF c \in DOMAIN pending_pvp /\ Get(pending_pvp[c], "player", None) = u
       THEN /\ h' = [pc |-> "se_roll", user |-> u, cid |-> c,
                     left |-> Get(pending_pvp[c], "rolls", 1),
                     n |-> pending_pvp[c].rolls,
                     a_rolls |-> pending_pvp[c].p_rolls]
            /\ last' = [op |-> "send_emoji", user |-> u, cid |-> c, res |-> "ok"]
       ELSE /\ h' = Idle
            /\ last' = [op |-> "send_emoji", user |-> u, cid |-> c, res |-> "invalid"]
    /\ UNCHANGED <<pending_pvp, db_pending, balance, house, now, sw, loops, hist,
                   nSweeps, nRaises>>

V2SendEmoji ==
    \E u \in Users, c \in Issued : HandlerFree /\ v2_send_emoji(u, c, queue)

\* one send_dice of the player's rolls: the score is appended to the dict
\* fetched when the handler began
V2SendEmojiRoll ==
    /\ h.pc = "se_roll"
    /\ \E d \in Die :
        /\ h' = [h EXCEPT !.a_rolls = Append(@, d), !.left = @ - 1,
                          !.pc = IF h.left = 1 THEN "se_bot" ELSE "se_roll"]
        /\ pending_pvp' = IF h.cid \in DOMAIN pending_pvp
                          THEN [pending_pvp EXCEPT ![h.cid].p_rolls = Append(@, d)]
                          ELSE pending_pvp
    /\ UNCHANGED <<db_pending, balance, house, now, queue, sw, loops, hist, last,
                   nSweeps, nRaises>>

\* the bot's rolls, the reload of the store and the round/series resolution
V2SendEmojiResolve ==
    /\ h.pc = "se_bot"
    /\ \E b_tot \in DiceSums(h.n) :
        LET c == h.cid
            u == h.user
            mem == db_pending
            p_tot == SeqSum(h.a_rolls)
        IN  /\ Detached(DOMAIN pending_pvp)
            /\ IF c \notin DOMAIN mem
               THEN /\ pending_pvp' = mem
                    /\ h' = Idle
                    /\ last' = [op |-> "resolve_bot", cid |-> c, res |-> "gone"]
                    /\ UNCHANGED <<balance, house, hist>>
               ELSE LET ch == mem[c]
                        round_win == RoundWin(Get(ch, "mode", "normal"), p_tot, b_tot)
                        ch1 == [ch EXCEPT
                                  !.p_pts = IF round_win = "p" THEN @ + 1 ELSE @,
                                  !.b_pts = IF round_win = "b" THEN @ + 1 ELSE @]
                        target_pts == Get(ch, "pts", 1)
                        w == ch.wager
                        payout == SeriesPayout(w)
                    IN  IF ch1.p_pts >= target_pts \/ ch1.b_pts >= target_pts
                        THEN /\ pending_pvp' = Put(mem, c, ch1)
                             /\ h' = [pc |-> "se_end", user |-> u, cid |-> c]
                             /\ IF ch1.p_pts >= target_pts
                                THEN /\ balance' = [balance EXCEPT ![u] = @ + payout]
                                     /\ house' = house - (payout - w)
                                     /\ hist' = HCredit(HSettled(hist, ch.sid), ch.sid, payout)
                                ELSE /\ house' = house + w
                                     /\ hist' = HSettled(hist, ch.sid)
                                     /\ UNCHANGED balance
                             /\ last' = [op |-> "settle_bot", cid |-> c, sid |-> ch.sid,
                                         user |-> u, wager |-> w, p_tot |-> p_tot,
                                         b_tot |-> b_tot, round_win |-> round_win,
                                         won |-> ch1.p_pts >= target_pts]
                        ELSE /\ pending_pvp' = Put(mem, c, [ch1 EXCEPT !.p_rolls = <<>>])
                             /\ h' = [pc |-> "se_next", user |-> u, cid |-> c]
                             /\ last' = [op |-> "round_bot", cid |-> c, sid |-> ch.sid,
                                         user |-> u, wager |-> w, p_tot |-> p_tot,
                                         b_tot |-> b_tot, round_win |-> round_win,
                                         won |-> FALSE, at |-> now]
                             /\ UNCHANGED <<balance, house, hist>>
    /\ UNCHANGED <<db_pending, now, queue, nSweeps, nRaises>>

\* after the result message: del self.pending_pvp[cid] (series end), then
\* update_pending_pvp.  A KeyError leaves through button_callback's except.
V2SendEmojiFinish ==
    /\ h.pc \in {"se_end", "se_next"}
    /\ h' = Idle
    /\ IF h.pc = "se_next"
       THEN /\ db_pending' = pending_pvp
            /\ UNCHANGED <<pending_pvp, sw, loops, hist>>
       ELSE IF h.cid \in DOMAIN pending_pvp
       THEN /\ Detached({h.cid})
            /\ pending_pvp' = Remove(pending_pvp, h.cid)
            /\ db_pending' = Remove(pending_pvp, h.cid)
            /\ hist' = HRemoved(hist, pending_pvp[h.cid].sid)
       ELSE UNCHANGED <<pending_pvp, db_pending, sw, loops, hist>>
    /\ UNCHANGED <<balance, house, now, queue, last, nSweeps, nRaises>>

\* --------------------------------------- button_callback: v2_cashout_<cid>
\* the player's rolls of the current round are in the dict: the round waits
\* for the bot's rolls and its resolution
RoundPending(mem, c) ==
    /\ c \in DOMAIN mem
    /\ Len(Get(mem[c], "p_rolls", <<>>)) >= Get(mem[c], "rolls", 1)

\* "if not challenge or challenge.get('player') != user_id": the negation
CashoutAllowedAnyPlayer(mem, u, c) ==
    c \in DOMAIN mem /\ "player" \in DOMAIN mem[c]
CashoutAllowed(mem, u, c) ==
    c \in DOMAIN mem /\ Get(mem[c], "player", None) = u

\* mid: the request came while a round of the session was in progress
v2_cashout(u, c, q, mid) ==
    /\ queue' = q
    /\ IF CashoutAllowed(pending_pvp, u, c)
       THEN LET ch == pending_pvp[c]
                cashout_val == calculate_cashout(ch.p_pts, ch.b_pts, ch.pts, ch.wager)
                profit == cashout_val - ch.wager
            IN  /\ balance' = [balance EXCEPT ![u] = @ + cashout_val]
                /\ house' = house - profit
                /\ hist' = HCredit(HSettled(hist, ch.sid), ch.sid, cashout_val)
                /\ h' = [pc |-> "co_msg", user |-> u, cid |-> c]
                /\ last' = [op |-> "cashout", user |-> u, cid |-> c, res |-> "ok",
                            amount |-> cashout_val, mid |-> mid]
       ELSE /\ h' = Idle
            /\ last' = [op |-> "cashout", user |-> u, cid |-> c, res |-> "invalid",
                        amount |-> 0, mid |-> mid]
            /\ UNCHANGED <<balance, house, hist>>
    /\ UNCHANGED <<pending_pvp, db_pending, now, sw, loops, nSweeps, nRaises>>

\* The callback data of an update is what the client sends: any user may
\* send the cashout of any id that was issued.
V2Cashout ==
    \E u \in Users, c \in Issued : HandlerFree /\ v2_cashout(u, c, queue, RoundPending(pending_pvp, c))

\* after edit_message_text: del self.pending_pvp[cid] and the save
V2CashoutFinish ==
    /\ h.pc = "co_msg"
    /\ h' = Idle
    /\ IF h.cid \in DOMAIN pending_pvp
       THEN /\ Detached({h.cid})
            /\ pending_pvp' = Remove(pending_pvp, h.cid)
            /\ db_pending' = Remove(pending_pvp, h.cid)
            /\ hist' = HRemoved(hist, pending_pvp[h.cid].sid)
       ELSE UNCHANGED <<pending_pvp, db_pending, sw, loops, hist>>
    /\ UNCHANGED <<balance, house, now, queue, last, nSweeps, nRaises>>

\* ------------------------------------------------ the update queue
\* A cashout button is pressed while a handler is in flight: the update
\* waits in the Application's queue.  A round of the session is in progress
\* when the handler in flight is its v2_send_emoji, past the player's rolls.
RoundInProgress(c) == h.pc = "se_bot" /\ h.cid = c

CashoutArrives ==
    /\ h.pc # "idle"
    /\ Len(queue) < MaxQueue
    /\ \E u \in Users, c \in Issued :
        /\ IsBotId(c)
        /\ c = h.cid
        /\ queue' = Append(queue, [op |-> "cashout", user |-> u, cid |-> c,
                                   mid |-> RoundInProgress(c)])
    /\ UNCHANGED <<pending_pvp, db_pending, balance, house, now, h, sw, loops, hist,
                   last, nSweeps, nRaises>>

\* the handler in flight has returned: the next update of the queue
CashoutDequeued ==
    /\ h.pc = "idle"
    /\ queue # <<>>
    /\ v2_cashout(Head(queue).user, Head(queue).cid, Tail(queue),
                  Head(queue).mid \/ RoundPending(pending_pvp, Head(queue).cid))

\* ------------------------------------------- button_callback: except
\* The Bot API call a button handler is suspended at raises (a network
\* error, a timeout): button_callback's except clause logs it and the handler
\* ends where it stands.
AwaitRaises ==
    /\ h.pc \in {"se_roll", "se_bot", "se_end", "se_next", "co_msg", "acc_msg",
                "oacc_msg", "dec_msg"}
    /\ nRaises < MaxRaises
    /\ h' = Idle
    /\ nRaises' = nRaises + 1
    /\ UNCHANGED <<pending_pvp, db_pending, balance, house, now, queue, sw, loops,
                   hist, last, nSweeps>>

\* ------------------------------------------------ handle_emoji_response
\* index in `order` of the first v2_pvp_ session that waits for u's roll, or 0
RECURSIVE HerMatch(_, _, _, _)
HerMatch(order, mem, u, i) ==
    IF i > Len(order) THEN 0
    ELSE IF /\ IsPvpId(order[i])
            /\ \/ Get(mem[order[i]], "waiting_p1", FALSE) /\ mem[order[i]].challenger = u
               \/ Get(mem[order[i]], "waiting_p2", FALSE) /\ mem[order[i]].opponent = u
    THEN i
    ELSE HerMatch(order, mem, u, i + 1)

\* A dice message of u with score d.  The store is reloaded from the
\* persisted copy, then the first matching session takes the roll.  The
\* v2_bot_ branch asks for waiting_for_emoji, which every session of
\* start_generic_v2_bot stores as False, so no bot session matches.
handle_emoji_response(u, d, q) ==
    LET mem == db_pending
        order == InOrder(mem, DOMAIN mem)
        idx == HerMatch(order, mem, u, 1)
    IN  /\ queue' = q
        /\ Detached(DOMAIN pending_pvp)
        /\ IF idx = 0
           THEN /\ pending_pvp' = mem
                /\ h' = Idle
                /\ last' = [op |-> "dice", user |-> u, res |-> "none"]
                /\ UNCHANGED <<balance, hist>>
           ELSE LET c == order[idx]
                    ch == mem[c]
                    p1 == Get(ch, "waiting_p1", FALSE) /\ ch.challenger = u
                    flag == IF p1 THEN "p1_deducted" ELSE "p2_deducted"
                    paid == Get(ch, flag, FALSE)
                IN  IF ~paid /\ balance[u] < ch.wager
                    THEN /\ pending_pvp' = mem
                         /\ h' = Idle
                         /\ last' = [op |-> "dice", user |-> u, res |-> "insufficient"]
                         /\ UNCHANGED <<balance, hist>>
                    ELSE LET ch1 == IF p1
                                    THEN [ch EXCEPT !.p1_deducted = TRUE,
                                                    !.p1_rolls = Append(@, d)]
                                    ELSE [ch EXCEPT !.p2_deducted = TRUE,
                                                    !.p2_rolls = Append(@, d)]
                             full == IF p1 THEN Len(ch1.p1_rolls) >= ch.rolls
                                     ELSE Len(ch1.p2_rolls) >= ch.rolls
                             ch2 == IF ~full THEN [ch1 EXCEPT !.emoji_wait = now]
                                    ELSE IF p1
                                    THEN [ch1 EXCEPT !.waiting_p1 = FALSE,
                                                     !.waiting_p2 = TRUE]
                                    ELSE [ch1 EXCEPT !.waiting_p2 = FALSE,
                                                     !.emoji_wait = now]
                         IN  /\ balance' = IF paid THEN balance
                                           ELSE [balance EXCEPT ![u] = Max(0, @ - ch.wager)]
                             /\ hist' = IF paid THEN hist ELSE HDebit(hist, ch.sid, ch.wager)
                             /\ pending_pvp' = Put(mem, c, ch2)
                             /\ h' = IF p1 /\ full
                                     THEN [pc |-> "her_turn", user |-> u, cid |-> c]
                                     ELSE Idle
                             /\ last' = [op |-> "dice", user |-> u, res |-> "roll",
                                         cid |-> c, side |-> IF p1 THEN "p1" ELSE "p2"]
        /\ UNCHANGED <<db_pending, house, now, nSweeps, nRaises>>

HandleEmojiResponse ==
    \E u \in Users, d \in Die : HandlerFree /\ handle_emoji_response(u, d, queue)

\* after "<p2> turn!": challenge['emoji_wait'] = now, on the dict the handler
\* holds
HandleEmojiTurn ==
    /\ h.pc = "her_turn"
    /\ h' = Idle
    /\ pending_pvp' = IF h.cid \in DOMAIN pending_pvp
                      THEN [pending_pvp EXCEPT ![h.cid].emoji_wait = now]
                      ELSE pending_pvp
    /\ UNCHANGED <<db_pending, balance, house, now, queue, sw, loops, hist, last,
                   nSweeps, nRaises>>

\* ------------------------------------------------- start_generic_v2_pvp
start_generic_v2_pvp(u, w, r, m, p, q) ==
    /\ queue' = q
    /\ IF w > balance[u]
       THEN /\ last' = [op |-> "start_pvp", user |-> u, wager |-> w,
                        res |-> "insufficient"]
            /\ UNCHANGED <<pending_pvp, balance, hist>>
       ELSE LET sid == Len(hist) + 1
                cid == Cid("v2_pvp_", "dice", u, sid)
            IN  /\ Challenges < MaxChallenges
                /\ balance' = [balance EXCEPT ![u] = @ - w]
                /\ pending_pvp' = Put(pending_pvp, cid,
                                      GenericPvpSession(u, w, r, m, p, now, sid))
                /\ hist' = Append(hist, NewHist(cid, w))
                /\ last' = [op |-> "start_pvp", user |-> u, wager |-> w, res |-> "ok",
                            cid |-> cid]
    /\ UNCHANGED <<db_pending, house, now, h, sw, loops, nSweeps, nRaises>>

StartGenericV2Pvp ==
    \E u \in Users, w \in Wagers, s \in Setups :
        HandlerFree /\ start_generic_v2_pvp(u, w, s.rolls, s.mode, s.pts, queue)

\* ------------------------------------------------- accept_generic_v2_pvp
accept_generic_v2_pvp(u, c, q) ==
    /\ queue' = q
    /\ IF c \notin DOMAIN pending_pvp
       THEN /\ last' = [op |-> "accept", user |-> u, cid |-> c, res |-> "cannot"]
            /\ UNCHANGED <<pending_pvp, balance, hist, h>>
       ELSE IF pending_pvp[c].challenger = u
       THEN /\ last' = [op |-> "accept", user |-> u, cid |-> c, res |-> "cannot"]
            /\ UNCHANGED <<pending_pvp, balance, hist, h>>
       ELSE IF balance[u] < pending_pvp[c].wager
       THEN /\ last' = [op |-> "accept", user |-> u, cid |-> c, res |-> "insufficient"]
            /\ UNCHANGED <<pending_pvp, balance, hist, h>>
       ELSE LET ch == pending_pvp[c]
            IN  /\ balance' = [balance EXCEPT ![u] = @ - ch.wager]
                /\ hist' = HDebit(hist, ch.sid, ch.wager)
                /\ pending_pvp' = [pending_pvp EXCEPT ![c].opponent = u,
                                                      ![c].p2_deducted = TRUE]
                /\ h' = [pc |-> "acc_msg", user |-> u, cid |-> c]
                /\ last' = [op |-> "accept", user |-> u, cid |-> c, res |-> "ok"]
    /\ UNCHANGED <<db_pending, house, now, sw, loops, nSweeps, nRaises>>

AcceptGenericV2Pvp ==
    \E u \in Users, c \in Issued :
        /\ IsPvpId(c)
        /\ HandlerFree
        /\ Len(loops) < MaxLoops
        /\ accept_generic_v2_pvp(u, c, queue)

\* after "Challenge Accepted!": asyncio.create_task(generic_v2_pvp_loop)
AcceptStartsLoop ==
    /\ h.pc = "acc_msg"
    /\ h' = Idle
    /\ loops' = Append(loops, [pc |-> "start", cid |-> h.cid, att |-> FALSE,
                               obj |-> <<>>, p1 |-> None, p2 |-> None])
    /\ UNCHANGED <<pending_pvp, db_pending, balance, house, now, queue, sw, hist,
                   last, nSweeps, nRaises>>

\* --------------------------------------------------- generic_v2_pvp_loop
LoopDone(l) == [pc |-> "done", cid |-> l.cid, att |-> FALSE, obj |-> <<>>,
                p1 |-> None, p2 |-> None]

\* the loop l writes ch to its `challenge` dict
LoopWrite(i, l, ch) ==
    IF l.att
    THEN /\ pending_pvp' = [pending_pvp EXCEPT ![l.cid] = ch]
         /\ loops' = [loops EXCEPT ![i] = l]
    ELSE /\ pending_pvp' = pending_pvp
         /\ loops' = [loops EXCEPT ![i] = [l EXCEPT !.obj = ch]]

\* what the series end credits to the winner
PvpWinnerCredit(wager) == wager

\* The outer while's test on the dict ch, with l the loop as it goes on and
\* ch already written: another round, or the series end up to its message.
LoopWhile(i, l, ch) ==
    IF ch.p1_pts < ch.pts /\ ch.p2_pts < ch.pts
    THEN /\ LoopWrite(i, [l EXCEPT !.pc = "round_msg"], ch)
         /\ UNCHANGED <<balance, hist, last>>
    ELSE LET wager == ch.wager
             winner_id == IF ch.p1_pts >= ch.pts THEN l.p1 ELSE l.p2
             loser_id == IF winner_id = l.p1 THEN l.p2 ELSE l.p1
         IN  /\ LoopWrite(i, [l EXCEPT !.pc = "win_msg"], ch)
             /\ balance' = [balance EXCEPT ![winner_id] = @ + PvpWinnerCredit(wager)]
             /\ hist' = HCredit(HSettled(hist, ch.sid), ch.sid, PvpWinnerCredit(wager))
             /\ last' = [op |-> "settle_pvp", cid |-> l.cid, sid |-> ch.sid,
                         wager |-> wager, winner |-> winner_id, loser |-> loser_id]

\* the task begins: the dict is fetched and the participants are read
LoopStart(i) ==
    /\ loops[i].pc = "start"
    /\ IF loops[i].cid \notin DOMAIN pending_pvp
       THEN /\ loops' = [loops EXCEPT ![i] = LoopDone(loops[i])]
            /\ UNCHANGED <<pending_pvp, balance, hist, last>>
       ELSE LET ch == pending_pvp[loops[i].cid]
                l == [loops[i] EXCEPT !.att = TRUE, !.p1 = ch.challenger,
                                      !.p2 = ch.opponent]
            IN  LoopWhile(i, l, ch)
    /\ UNCHANGED <<db_pending, house, now, h, queue, sw, nSweeps, nRaises>>

\* after "Round Start!": the rolls are reset and the challenger is awaited
LoopRoundBegin(i) ==
    /\ loops[i].pc = "round_msg"
    /\ LET ch == LoopObj(loops[i], pending_pvp)
       IN  LoopWrite(i, [loops[i] EXCEPT !.pc = "poll"],
                     [ch EXCEPT !.p1_rolls = <<>>, !.p2_rolls = <<>>,
                                !.waiting_p1 = TRUE, !.waiting_p2 = FALSE,
                                !.emoji_wait = now])
    /\ UNCHANGED <<db_pending, balance, house, now, h, queue, sw, hist, last, nSweeps, nRaises>>

\* after asyncio.sleep(2): the dict is fetched again; with both sides'
\* rolls in, the round is resolved
LoopPoll(i) ==
    /\ loops[i].pc = "poll"
    /\ IF loops[i].cid \notin DOMAIN pending_pvp
       THEN /\ loops' = [loops EXCEPT ![i] = LoopDone(loops[i])]
            /\ UNCHANGED pending_pvp
       ELSE LET ch == pending_pvp[loops[i].cid]
                l == [loops[i] EXCEPT !.att = TRUE, !.obj = <<>>]
                win == RoundWin(ch.mode, SeqSum(ch.p1_rolls), SeqSum(ch.p2_rolls))
            IN  IF Len(ch.p1_rolls) < ch.rolls \/ Len(ch.p2_rolls) < ch.rolls
                THEN LoopWrite(i, l, ch)
                ELSE LoopWrite(i, [l EXCEPT !.pc = "result_msg"],
                               [ch EXCEPT
                                  !.p1_pts = IF win = "p" THEN @ + 1 ELSE @,
                                  !.p2_pts = IF win = "b" THEN @ + 1 ELSE @])
    /\ UNCHANGED <<db_pending, balance, house, now, h, queue, sw, hist, last, nSweeps, nRaises>>

\* after "Round Result" and asyncio.sleep(1): the outer while's test
LoopResult(i) ==
    /\ loops[i].pc = "result_msg"
    /\ LoopWhile(i, loops[i], LoopObj(loops[i], pending_pvp))
    /\ UNCHANGED <<db_pending, house, now, h, queue, sw, nSweeps, nRaises>>

\* after the winner's message: del self.pending_pvp[cid]
LoopFinish(i) ==
    /\ loops[i].pc = "win_msg"
    /\ LET c == loops[i].cid
           ls == [loops EXCEPT ![i] = LoopDone(loops[i])]
       IN  IF c \in DOMAIN pending_pvp
           THEN /\ sw' = SwDetach(sw, pending_pvp, {c})
                /\ loops' = LoopsDetach(ls, pending_pvp, {c})
                /\ pending_pvp' = Remove(pending_pvp, c)
                /\ hist' = HRemoved(hist, pending_pvp[c].sid)
           ELSE /\ loops' = ls
                /\ UNCHANGED <<pending_pvp, sw, hist>>
    /\ UNCHANGED <<db_pending, balance, house, now, h, queue, last, nSweeps, nRaises>>

\* the steps of the tasks
PvpLoopStart == \E i \in DOMAIN loops : LoopStart(i)

PvpLoopRoundBegin == \E i \in DOMAIN loops : LoopRoundBegin(i)

PvpLoopPoll == \E i \in DOMAIN loops : LoopPoll(i)

PvpLoopResult == \E i \in DOMAIN loops : LoopResult(i)

PvpLoopFinish == \E i \in DOMAIN loops : LoopFinish(i)

\* ------------------------------------- _show_emoji_game_setup: "confirm"
\* the dict of the confirm step: no timestamp, and the flag wager_deducted
\* set with no debit made
SeriesBotSession(u, w, sid) ==
    [type |-> "series_bot", player |-> u, wager |-> w, mode |-> "normal",
     rolls |-> 1, pts |-> 3, player_points |-> 0, bot_points |-> 0,
     player_rolls |-> <<>>, bot_rolls |-> <<>>, waiting_for_emoji |-> TRUE,
     wager_deducted |-> TRUE, sid |-> sid]

\* how many sessions the confirm step created
SeriesBots == Cardinality({i \in DOMAIN hist : hist[i].cid[2] = "series_bot"})

\* step == "confirm" (callback data emoji_setup_<game>_<wager>_confirm): the
\* session is stored under f"v2_bot_{user_id}_{ts}"; nothing is debited
\* and nothing is persisted
show_emoji_game_setup_confirm(u, w, q) ==
    LET sid == Len(hist) + 1
        cid == Cid("v2_bot_", "series_bot", u, sid)
    IN  /\ queue' = q
        /\ SeriesBots < MaxGames
        /\ pending_pvp' = Put(pending_pvp, cid, SeriesBotSession(u, w, sid))
        /\ hist' = Append(hist, NewHist(cid, 0))
        /\ last' = [op |-> "confirm", user |-> u, wager |-> w, res |-> "ok",
                    cid |-> cid]
        /\ UNCHANGED <<db_pending, balance, house, now, h, sw, loops, nSweeps,
                       nRaises>>

ShowEmojiGameSetupConfirm ==
    \E u \in Users, w \in Wagers :
        HandlerFree /\ show_emoji_game_setup_confirm(u, w, queue)

\* ------------------------------------------- create_emoji_pvp_challenge
\* An id f"{game_type}_open_{user}_{ts}" of an open emoji challenge.
IsOpenId(c) == c[1] = "darts_open_"

OpenChallenges == Cardinality({i \in DOMAIN hist : hist[i].cid[1] = "darts_open_"})

\* create_emoji_pvp_challenge's dict
EmojiPvpSession(u, w, t, sid) ==
    [type |-> "darts", challenger |-> u, challenger_roll |-> None,
     opponent |-> None, wager |-> w, waiting_for_challenger_emoji |-> FALSE,
     created_at |-> t, sid |-> sid]

\* "self.db.data['pending_pvp'] = self.pending_pvp" assigns into the dict
\* the data property has just built: the persisted copy is not written.
create_emoji_pvp_challenge(u, w, q) ==
    /\ queue' = q
    /\ IF w > balance[u]
       THEN /\ last' = [op |-> "create_open", user |-> u, wager |-> w,
                        res |-> "insufficient"]
            /\ UNCHANGED <<pending_pvp, balance, hist>>
       ELSE LET sid == Len(hist) + 1
                cid == Cid("darts_open_", "darts", u, sid)
            IN  /\ OpenChallenges < MaxChallenges
                /\ balance' = [balance EXCEPT ![u] = @ - w]
                /\ pending_pvp' = Put(pending_pvp, cid, EmojiPvpSession(u, w, now, sid))
                /\ hist' = Append(hist, NewHist(cid, w))
                /\ last' = [op |-> "create_open", user |-> u, wager |-> w,
                            res |-> "ok", cid |-> cid]
    /\ UNCHANGED <<db_pending, house, now, h, sw, loops, nSweeps, nRaises>>

CreateEmojiPvpChallenge ==
    \E u \in Users, w \in Wagers :
        HandlerFree /\ create_emoji_pvp_challenge(u, w, queue)

\* ------------------------------------------- accept_emoji_pvp_challenge
\* "if time_diff > 300": the literal of the accept, in units of `now`
AcceptLimit == 1

\* why accept_emoji_pvp_challenge turns a request down, or "ok"
AcceptEmojiVerdictNoSelfCheck(mem, bal, t, u, c) ==
    IF c \notin DOMAIN mem THEN "gone"
    ELSE IF "created_at" \in DOMAIN mem[c] /\ t - mem[c].created_at > AcceptLimit
    THEN "expired"
    ELSE IF mem[c].wager > bal[u] THEN "insufficient"
    ELSE "ok"
AcceptEmojiVerdict(mem, bal, t, u, c) ==
    IF c \notin DOMAIN mem THEN "gone"
    ELSE IF "created_at" \in DOMAIN mem[c] /\ t - mem[c].created_at > AcceptLimit
    THEN "expired"
    ELSE IF u = mem[c].challenger THEN "self"
    ELSE IF mem[c].wager > bal[u] THEN "insufficient"
    ELSE "ok"

\* up to edit_message_text: the checks and the acceptor's debit
accept_emoji_pvp_challenge(u, c, q) ==
    LET v == AcceptEmojiVerdict(pending_pvp, balance, now, u, c)
    IN  /\ queue' = q
        /\ last' = [op |-> "accept_open", user |-> u, cid |-> c, res |-> v]
        /\ IF v = "ok"
           THEN LET ch == pending_pvp[c]
                IN  /\ balance' = [balance EXCEPT ![u] = @ - ch.wager]
                    /\ hist' = HDebit(hist, ch.sid, ch.wager)
                    /\ h' = [pc |-> "oacc_msg", user |-> u, cid |-> c, ch |-> ch]
           ELSE UNCHANGED <<balance, hist, h>>
        /\ UNCHANGED <<pending_pvp, db_pending, house, now, sw, loops, nSweeps,
                       nRaises>>

AcceptEmojiPvpChallenge ==
    \E u \in Users, c \in Issued :
        IsOpenId(c) /\ HandlerFree /\ accept_emoji_pvp_challenge(u, c, queue)

\* after "<challenger> your turn": the acceptor is recorded on the dict the
\* handler fetched, and the dict is stored under its id again
AcceptEmojiPvpFinish ==
    /\ h.pc = "oacc_msg"
    /\ h' = Idle
    /\ LET ch == h.ch
       IN  pending_pvp' = Put(pending_pvp, h.cid,
                              [x \in DOMAIN ch \cup {"waiting_for_emoji",
                                                      "emoji_wait_started"} |->
                                 IF x = "opponent" THEN h.user
                                 ELSE IF x = "waiting_for_challenger_emoji" THEN TRUE
                                 ELSE IF x = "waiting_for_emoji" THEN FALSE
                                 ELSE IF x = "emoji_wait_started" THEN now
                                 ELSE ch[x]])
    /\ UNCHANGED <<db_pending, balance, house, now, queue, sw, loops, hist, last,
                   nSweeps, nRaises>>

\* ------------------------------------------ button_callback: decline_<id>
\* "challenge_id in self.pending_pvp and ...['challenger'] == user_id"; a
\* dict without the key raises KeyError, which button_callback's except logs
DeclineAllowed(mem, u, c) ==
    c \in DOMAIN mem /\ "challenger" \in DOMAIN mem[c] /\ mem[c].challenger = u

decline_callback(u, c, q) ==
    /\ queue' = q
    /\ IF DeclineAllowed(pending_pvp, u, c)
       THEN /\ h' = [pc |-> "dec_msg", user |-> u, cid |-> c]
            /\ last' = [op |-> "decline", user |-> u, cid |-> c, res |-> "ok"]
       ELSE /\ h' = Idle
            /\ last' = [op |-> "decline", user |-> u, cid |-> c, res |-> "refused"]
    /\ UNCHANGED <<pending_pvp, db_pending, balance, house, now, sw, loops, hist,
                   nSweeps, nRaises>>

Decline ==
    \E u \in Users, c \in Issued : HandlerFree /\ decline_callback(u, c, queue)

\* after "Challenge canceled.": del self.pending_pvp[challenge_id] and
\* update_pending_pvp
DeclineFinish ==
    /\ h.pc = "dec_msg"
    /\ h' = Idle
    /\ IF h.cid \in DOMAIN pending_pvp
       THEN /\ Detached({h.cid})
            /\ pending_pvp' = Remove(pending_pvp, h.cid)
            /\ db_pending' = Remove(pending_pvp, h.cid)
            /\ hist' = HRemoved(hist, pending_pvp[h.cid].sid)
       ELSE UNCHANGED <<pending_pvp, db_pending, sw, loops, hist>>
    /\ UNCHANGED <<balance, house, now, queue, last, nSweeps, nRaises>>

\* ------------------------------------------------ check_expired_challenges
\* time_diff > limit for a v2 session
SweepLimit(ch, expiration_limit) ==
    IF Get(ch, "cur_rolls", 0) > 0 \/ Get(ch, "p_pts", 0) > 0 \/ Get(ch, "b_pts", 0) > 0
    THEN ExtendedLimit ELSE expiration_limit

IsExpired(ch, current_time, expiration_limit) ==
    (current_time - ch.emoji_wait) > SweepLimit(ch, expiration_limit)

\* the branch of the loop body a session that is not a v2 series takes:
\* "open" (Case 1), "challenger" (Case 2), "opponent" (Case 3) or "none"
SweepCase(ch) ==
    IF "created_at" \in DOMAIN ch /\ Get(ch, "opponent", None) = None THEN "open"
    ELSE IF Get(ch, "waiting_for_challenger_emoji", FALSE)
            /\ "emoji_wait_started" \in DOMAIN ch THEN "challenger"
    ELSE IF Get(ch, "waiting_for_emoji", FALSE)
            /\ "emoji_wait_started" \in DOMAIN ch THEN "opponent"
    ELSE "none"

\* "if time_diff > limit" / "if time_diff > expiration_limit" of the branch
\* the session takes
SweepExpired(c, ch, current_time, expiration_limit) ==
    IF IsBotId(c) \/ IsPvpId(c)
    THEN IF "emoji_wait" \in DOMAIN ch
         THEN IsExpired(ch, current_time, expiration_limit)
         ELSE IF "created_at" \in DOMAIN ch
         THEN (current_time - ch.created_at) > SweepLimit(ch, expiration_limit)
         ELSE FALSE
    ELSE IF SweepCase(ch) = "open"
    THEN (current_time - ch.created_at) > expiration_limit
    ELSE IF SweepCase(ch) \in {"challenger", "opponent"}
    THEN (current_time - ch.emoji_wait_started) > expiration_limit
    ELSE FALSE

\* index of the first expired session of the snapshot's rest, or 0
RECURSIVE FirstExpired(_, _, _)
FirstExpired(s, mem, i) ==
    IF i > Len(s.todo) THEN 0
    ELSE IF SweepExpired(s.todo[i], SwObj(s, mem, s.todo[i]), s.current_time,
                         DefaultExpiration)
    THEN i
    ELSE FirstExpired(s, mem, i + 1)

\* whom the timeout policy credits for one expired session, and how much
SweepRefund(c, ch) ==
    IF IsBotId(c)
    THEN IF Get(ch, "waiting_for_cashout", FALSE)
         THEN [to |-> ch.player,
               amt |-> calculate_cashout(ch.p_pts, ch.b_pts, ch.pts, ch.wager),
               hse |-> -(calculate_cashout(ch.p_pts, ch.b_pts, ch.pts, ch.wager)
                         - ch.wager)]
         ELSE IF Get(ch, "wager_deducted", FALSE)
                 /\ Get(ch, "cur_rolls", 0) >= Get(ch, "rolls", 0)
         THEN [to |-> ch.player, amt |-> Get(ch, "wager", 0), hse |-> 0]
         ELSE [to |-> None, amt |-> 0, hse |-> 0]
    ELSE IF ~IsPvpId(c)
    THEN IF SweepCase(ch) = "open"
         THEN [to |-> ch.challenger, amt |-> Get(ch, "wager", 0), hse |-> 0]
         ELSE IF SweepCase(ch) = "challenger"
         THEN [to |-> ch.opponent, amt |-> Get(ch, "wager", 0),
               hse |-> Get(ch, "wager", 0)]
         ELSE IF SweepCase(ch) = "opponent" /\ Get(ch, "opponent", None) # None
         THEN [to |-> ch.challenger, amt |-> Get(ch, "wager", 0),
               hse |-> Get(ch, "wager", 0)]
         ELSE [to |-> None, amt |-> 0, hse |-> 0]
    ELSE IF Get(ch, "waiting_p1", FALSE)
         THEN IF Get(ch, "p2_deducted", FALSE)
              THEN [to |-> ch.opponent, amt |-> Get(ch, "wager", 0), hse |-> 0]
              ELSE [to |-> None, amt |-> 0, hse |-> 0]
         ELSE IF Get(ch, "waiting_p2", FALSE) /\ Get(ch, "p1_deducted", FALSE)
         THEN [to |-> ch.challenger, amt |-> Get(ch, "wager", 0), hse |-> 0]
         ELSE [to |-> None, amt |-> 0, hse |-> 0]

\* what expired_challenges gets for one expired session
SweepAppend(c, ch) ==
    IF IsBotId(c) /\ Get(ch, "waiting_for_cashout", FALSE) THEN <<c, c>> ELSE <<c>>

\* "for challenge_id in expired_challenges: del ...": the ids deleted before
\* the loop ends or a KeyError ends it
RECURSIVE Deleted(_, _)
Deleted(dom, exp) ==
    IF exp = <<>> \/ Head(exp) \notin dom THEN <<>>
    ELSE <<Head(exp)>> \o Deleted(dom \ {Head(exp)}, Tail(exp))

RECURSIVE HRemovedAll(_, _, _)
HRemovedAll(hs, mem, del) ==
    IF del = <<>> THEN hs
    ELSE HRemovedAll(HRemoved(hs, mem[Head(del)].sid), mem, Tail(del))

\* Case 1's notification formats challenger_data, which only Cases 2 and 3
\* assign: in a run that has met neither the f-string raises inside the try
\* and nothing is awaited (s.cd says that challenger_data is bound).
SweepAwaits(s, c, ch) ==
    IsBotId(c) \/ IsPvpId(c) \/ SweepCase(ch) # "open" \/ s.cd

\* the sweeper past one expired session
SweepPast(s, i, c, ch) ==
    LET rest == SubSeq(s.todo, i + 1, Len(s.todo))
    IN  [pc |-> "await", current_time |-> s.current_time, todo |-> rest,
         stale |-> [x \in DOMAIN s.stale \cap {rest[k] : k \in DOMAIN rest}
                      |-> s.stale[x]],
         expired |-> s.expired \o SweepAppend(c, ch),
         bare |-> IsBotId(c) \/ IsPvpId(c),
         cd |-> s.cd \/ (~IsBotId(c) /\ ~IsPvpId(c)
                         /\ SweepCase(ch) \in {"challenger", "opponent"})]

\* the expired sessions at the head of the run that are handled without an
\* await: the state of the run, the balances and the ledger after them
RECURSIVE SweepQuiet(_, _, _, _)
SweepQuiet(s, mem, bal, hst) ==
    LET i == FirstExpired(s, mem, 1)
    IN  IF i = 0 \/ SweepAwaits(s, s.todo[i], SwObj(s, mem, s.todo[i]))
        THEN [s |-> s, bal |-> bal, hst |-> hst]
        ELSE LET c == s.todo[i]
                 ch == SwObj(s, mem, c)
                 r == SweepRefund(c, ch)
             IN  SweepQuiet(SweepPast(s, i, c, ch), mem,
                            IF r.to = None THEN bal
                            ELSE [bal EXCEPT ![r.to] = @ + r.amt],
                            HCredit(HTerminal(hst, ch.sid), ch.sid, r.amt))

\* The sweep from where it stands to its next await (the notification of
\* the next expired session) or to its end (the deletions).
SweepRun(s0) ==
    LET q == SweepQuiet(s0, pending_pvp, balance, hist)
        s == q.s
        i == FirstExpired(s, pending_pvp, 1)
    IN  IF i = 0
        THEN LET del == Deleted(DOMAIN pending_pvp, s.expired)
                 gone == {del[k] : k \in DOMAIN del}
             IN  /\ pending_pvp' = [c \in DOMAIN pending_pvp \ gone |-> pending_pvp[c]]
                 /\ hist' = HRemovedAll(q.hst, pending_pvp, del)
                 /\ loops' = LoopsDetach(loops, pending_pvp, gone)
                 /\ sw' = SwIdle
                 /\ last' = [op |-> "sweep_end", deleted |-> del, expired |-> s.expired]
                 /\ balance' = q.bal
                 /\ UNCHANGED house
        ELSE LET c == s.todo[i]
                 ch == SwObj(s, pending_pvp, c)
                 r == SweepRefund(c, ch)
             IN  /\ balance' = IF r.to = None THEN q.bal
                               ELSE [q.bal EXCEPT ![r.to] = @ + r.amt]
                 /\ house' = house + r.hse
                 /\ hist' = HCredit(HTerminal(q.hst, ch.sid), ch.sid, r.amt)
                 /\ sw' = SweepPast(s, i, c, ch)
                 /\ last' = [op |-> "sweep", cid |-> c, sid |-> ch.sid, to |-> r.to,
                             amt |-> r.amt]
                 /\ UNCHANGED <<pending_pvp, loops>>

\* a run of the job that finds a session to expire (a run that finds none
\* changes nothing)
SweepStart ==
    /\ sw.pc = "idle"
    /\ LET s == [pc |-> "await", current_time |-> now,
                 todo |-> InOrder(pending_pvp, DOMAIN pending_pvp),
                 stale |-> <<>>, expired |-> <<>>, bare |-> FALSE, cd |-> FALSE]
       IN  /\ FirstExpired(s, pending_pvp, 1) # 0
           /\ SweepRun(s)
    /\ UNCHANGED <<db_pending, now, h, queue, nRaises>>

SweepBegin ==
    /\ nSweeps < MaxSweeps
    /\ SweepStart
    /\ nSweeps' = nSweeps + 1

\* the job as run_repeating keeps calling it: the runs are not counted
SweepAgain == SweepStart /\ UNCHANGED nSweeps

SweepResume ==
    /\ sw.pc = "await"
    /\ SweepRun(sw)
    /\ UNCHANGED <<db_pending, now, h, queue, nSweeps, nRaises>>

\* The notification of a v2 session is awaited outside any inner try
\* (sw.bare): when it raises, the job's outer except logs the error and the
\* run ends before its deletions.
SweepRaises ==
    /\ sw.pc = "await"
    /\ sw.bare
    /\ nRaises < MaxRaises
    /\ sw' = SwIdle
    /\ nRaises' = nRaises + 1
    /\ UNCHANGED <<pending_pvp, db_pending, balance, house, now, h, queue, loops,
                   hist, last, nSweeps>>

\* ------------------------------------------- ids taken from the clock second
\* seconds in one unit of `now` (300 in the source)
SecondsPerUnit == 2
MaxCreates == 3

\* int(datetime.now().timestamp()) at a call: a second of the current unit
\* of `now`, not before the second of the creation before it.
LatestSecond == IF hist = <<>> THEN 0 ELSE hist[Len(hist)].cid[4]
ClockSeconds ==
    {s \in (now * SecondsPerUnit)..(now * SecondsPerUnit + SecondsPerUnit - 1) :
        s >= LatestSecond}

create_emoji_pvp_challenge_at(u, w, ts) ==
    /\ IF w > balance[u]
       THEN /\ last' = [op |-> "create_open", user |-> u, wager |-> w,
                        res |-> "insufficient"]
            /\ UNCHANGED <<pending_pvp, balance, hist>>
       ELSE LET cid == Cid("darts_open_", "darts", u, ts)
            IN  /\ balance' = [balance EXCEPT ![u] = @ - w]
                /\ pending_pvp' = Put(pending_pvp, cid,
                                      EmojiPvpSession(u, w, now, Len(hist) + 1))
                /\ hist' = Append(hist, NewHist(cid, w))
                /\ last' = [op |-> "create_open", user |-> u, wager |-> w,
                            res |-> "ok", cid |-> cid]
    /\ UNCHANGED <<db_pending, house, now, h, queue, sw, loops, nSweeps, nRaises>>

CreateEmojiPvpChallengeAt ==
    \E u \in Users, w \in Wagers, ts \in ClockSeconds :
        Len(hist) < MaxCreates /\ create_emoji_pvp_challenge_at(u, w, ts)

start_generic_v2_pvp_at(u, w, r, m, p, ts) ==
    /\ IF w > balance[u]
       THEN /\ last' = [op |-> "start_pvp", user |-> u, wager |-> w,
                        res |-> "insufficient"]
            /\ UNCHANGED <<pending_pvp, balance, hist>>
       ELSE LET cid == Cid("v2_pvp_", "dice", u, ts)
            IN  /\ balance' = [balance EXCEPT ![u] = @ - w]
                /\ pending_pvp' = Put(pending_pvp, cid,
                                      GenericPvpSession(u, w, r, m, p, now,
                                                        Len(hist) + 1))
                /\ hist' = Append(hist, NewHist(cid, w))
                /\ last' = [op |-> "start_pvp", user |-> u, wager |-> w, res |-> "ok",
                            cid |-> cid]
    /\ UNCHANGED <<db_pending, house, now, h, queue, sw, loops, nSweeps, nRaises>>

StartGenericV2PvpAt ==
    \E u \in Users, w \in Wagers, s \in Setups, ts \in ClockSeconds :
        Len(hist) < MaxCreates /\ start_generic_v2_pvp_at(u, w, s.rolls, s.mode, s.pts, ts)

start_generic_v2_bot_at(u, w, r, m, p, ts) ==
    /\ IF HasActiveBotGame(pending_pvp, u)
       THEN /\ last' = [op |-> "start_bot", user |-> u, wager |-> w, res |-> "active"]
            /\ UNCHANGED <<pending_pvp, db_pending, balance, hist>>
       ELSE IF w > balance[u]
       THEN /\ last' = [op |-> "start_bot", user |-> u, wager |-> w,
                        res |-> "insufficient"]
            /\ UNCHANGED <<pending_pvp, db_pending, balance, hist>>
       ELSE LET cid == Cid("v2_bot_", "dice", u, ts)
                mem == Put(pending_pvp, cid,
                           GenericBotSession(u, w, r, m, p, now, Len(hist) + 1))
            IN  /\ balance' = [balance EXCEPT ![u] = @ - w]
                /\ pending_pvp' = mem
                /\ db_pending' = mem
                /\ hist' = Append(hist, NewHist(cid, w))
                /\ last' = [op |-> "start_bot", user |-> u, wager |-> w, res |-> "ok",
                            cid |-> cid]
    /\ UNCHANGED <<house, now, h, queue, sw, loops, nSweeps, nRaises>>

StartGenericV2BotAt ==
    \E u \in Users, w \in Wagers, s \in Setups, ts \in ClockSeconds :
        Len(hist) < MaxCreates /\ start_generic_v2_bot_at(u, w, s.rolls, s.mode, s.pts, ts)


\* ------------------------------------------------------------------ runs
InitWith(balances) ==
    /\ pending_pvp = <<>>
    /\ db_pending = <<>>
    /\ balance = balances
    /\ house = 0
    /\ now = 0
    /\ h = Idle
    /\ queue = <<>>
    /\ sw = SwIdle
    /\ loops = <<>>
    /\ hist = <<>>
    /\ last = [op |-> "none"]
    /\ nSweeps = 0
    /\ nRaises = 0

Init == InitWith(InitBalance)

InitPvp == InitWith(InitBalancePvp)

Tick ==
    /\ now < MaxTime
    /\ now' = now + 1
    /\ UNCHANGED <<pending_pvp, db_pending, balance, house, h, queue, sw, loops,
                   hist, last, nSweeps, nRaises>>

\* The program as its buttons and messages drive it: bot series only (no
\* button reaches the PvP creation, and the dice handler's second step
\* follows a PvP roll).
Next ==
    \/ Tick
    \/ StartGenericV2Bot
    \/ V2SendEmoji
    \/ V2SendEmojiRoll
    \/ V2SendEmojiResolve
    \/ V2SendEmojiFinish
    \/ V2Cashout
    \/ V2CashoutFinish
    \/ CashoutArrives
    \/ CashoutDequeued
    \/ AwaitRaises
    \/ HandleEmojiResponse
    \/ SweepBegin
    \/ SweepResume
    \/ SweepRaises

Spec == Init /\ [][Next]_vars

\* The life of a challenge up to its first round: the open emoji challenges
\* and the v2 PvP challenges are created, accepted, cancelled and swept
\* while the clock runs; no dice message arrives.
NextChallenge ==
    \/ Tick
    \/ CreateEmojiPvpChallenge
    \/ AcceptEmojiPvpChallenge
    \/ AcceptEmojiPvpFinish
    \/ Decline
    \/ DeclineFinish
    \/ StartGenericV2Pvp
    \/ AcceptGenericV2Pvp
    \/ AcceptStartsLoop
    \/ PvpLoopStart
    \/ PvpLoopRoundBegin
    \/ PvpLoopPoll
    \/ AwaitRaises
    \/ SweepBegin
    \/ SweepResume
    \/ SweepRaises

SpecChallenge == InitPvp /\ [][NextChallenge]_vars

\* The sessions of every creator, made when the bot starts, and the job
\* that run_repeating calls every 5 s for ever: the clock runs to MaxTime,
\* past the deadline of every session nobody has played.
NextDangling ==
    \/ Tick
    \/ now = 0 /\ ShowEmojiGameSetupConfirm
    \/ now = 0 /\ StartGenericV2Bot
    \/ now = 0 /\ CreateEmojiPvpChallenge
    \/ now = 0 /\ StartGenericV2Pvp
    \/ SweepAgain
    \/ SweepResume

SpecDangling ==
    /\ InitPvp /\ [][NextDangling]_vars
    /\ WF_vars(Tick) /\ WF_vars(SweepAgain) /\ WF_vars(SweepResume)

\* The creations on their own, each taking its id from the second of its
\* call: several calls fall in one second.
NextIds ==
    \/ Tick
    \/ CreateEmojiPvpChallengeAt
    \/ StartGenericV2PvpAt
    \/ StartGenericV2BotAt

SpecIds == InitPvp /\ [][NextIds]_vars

\* Open emoji challenges and bot series while dice messages arrive: the
\* dice handler reloads the store whoever sends the message; the clock
\* stands still and the job does not run.
NextReload ==
    \/ CreateEmojiPvpChallenge
    \/ AcceptEmojiPvpChallenge
    \/ AcceptEmojiPvpFinish
    \/ StartGenericV2Bot
    \/ HandleEmojiResponse

SpecReload == InitPvp /\ [][NextReload]_vars

\* The operations of the class, the PvP series' among them, called as their
\* signatures allow; the clock stands still and the job does not run.
NextPvp ==
    \/ StartGenericV2Bot
    \/ V2SendEmoji
    \/ V2SendEmojiRoll
    \/ V2SendEmojiResolve
    \/ V2SendEmojiFinish
    \/ V2Cashout
    \/ V2CashoutFinish
    \/ HandleEmojiResponse
    \/ HandleEmojiTurn
    \/ StartGenericV2Pvp
    \/ AcceptGenericV2Pvp
    \/ AcceptStartsLoop
    \/ PvpLoopStart
    \/ PvpLoopRoundBegin
    \/ PvpLoopPoll
    \/ PvpLoopResult
    \/ PvpLoopFinish

SpecPvp == InitPvp /\ [][NextPvp]_vars

\* a dice message of the player whose turn it is in a stored PvP series
TurnRoll ==
    \E u \in Users, d \in Die :
        /\ \E c \in DOMAIN pending_pvp :
              /\ IsPvpId(c)
              /\ \/ pending_pvp[c].waiting_p1 /\ pending_pvp[c].challenger = u
                 \/ pending_pvp[c].waiting_p2 /\ pending_pvp[c].opponent = u
        /\ HandlerFree
        /\ handle_emoji_response(u, d, queue)

\* SpecPvp with the event loop running every task and handler that is
\* ready, and the players rolling whenever it is their turn.
SpecPvpFair ==
    /\ InitPvp /\ [][NextPvp]_vars
    /\ WF_vars(AcceptStartsLoop)
    /\ WF_vars(PvpLoopStart)
    /\ WF_vars(PvpLoopRoundBegin)
    /\ WF_vars(PvpLoopPoll)
    /\ WF_vars(PvpLoopResult)
    /\ WF_vars(PvpLoopFinish)
    /\ WF_vars(HandleEmojiTurn)
    /\ SF_vars(TurnRoll)

\* calculate_cashout on its own: two scores of one series (a target and a
\* wager), each side's points from 0 to the target, and the function's value
\* for each of them.
CashoutArgs ==
    {[op |-> "args", target_pts |-> t, wager |-> w, p_pts |-> p1, b_pts |-> b1,
      p_pts2 |-> p2, b_pts2 |-> b2, value |-> 0, value2 |-> 0] :
        t \in 1..MaxTargetPoints, w \in CashoutWagers,
        p1 \in 0..MaxTargetPoints, b1 \in 0..MaxTargetPoints,
        p2 \in 0..MaxTargetPoints, b2 \in 0..MaxTargetPoints}

InitCashout ==
    /\ pending_pvp = <<>>
    /\ db_pending = <<>>
    /\ balance = InitBalance
    /\ house = 0
    /\ now = 0
    /\ h = Idle
    /\ queue = <<>>
    /\ sw = SwIdle
    /\ loops = <<>>
    /\ hist = <<>>
    /\ nSweeps = 0
    /\ nRaises = 0
    /\ last \in CashoutArgs

CalculateCashout ==
    /\ last.op = "args"
    /\ \E v \in calculate_cashout_results(last.p_pts, last.b_pts,
                                           last.target_pts, last.wager),
          v2 \in calculate_cashout_results(last.p_pts2, last.b_pts2,
                                            last.target_pts, last.wager) :
          last' = [last EXCEPT !.op = "calculate_cashout",
                               !.value = v, !.value2 = v2]
    /\ UNCHANGED <<pending_pvp, db_pending, balance, house, now, h, queue, sw,
                   loops, hist, nSweeps, nRaises>>

NextCashout == CalculateCashout

SpecCashout == InitCashout /\ [][NextCashout]_vars

\* ------------------------------------------------------------ properties
\* no handler, sweep or series end is in flight
Quiescent ==
    /\ h.pc = "idle"
    /\ sw.pc = "idle"
    /\ \A i \in DOMAIN loops : loops[i].pc # "win_msg"

\* C1: for every session, at most one terminal ledger effect (series payout
\* or loss, cashout credit, timeout refund or forfeiture) is ever applied, and
\* the session is removed from the store at most once.
SingleSettlement ==
    \A i \in DOMAIN hist : hist[i].terminal <= 1 /\ hist[i].removed <= 1

\* the escrow flags of a session dict that are set
EscrowFlags(ch) ==
    (IF Get(ch, "wager_deducted", FALSE) THEN 1 ELSE 0)
    + (IF Get(ch, "p1_deducted", FALSE) THEN 1 ELSE 0)
    + (IF Get(ch, "p2_deducted", FALSE) THEN 1 ELSE 0)

\* C2: for every session in the store, the wagers whose escrow flag is set
\* sum to what was debited from the participants for the session and has
\* not been credited back.
EscrowConservation ==
    \A c \in DOMAIN pending_pvp :
        LET ch == pending_pvp[c]
        IN  EscrowFlags(ch) * ch.wager
              = Max(0, hist[ch.sid].debited - hist[ch.sid].credited)

\* the session ids the sweep in flight has expired and not yet deleted
SweepHolds == IF sw.pc = "idle" THEN {} ELSE {sw.expired[k] : k \in DOMAIN sw.expired}

\* C3: the sweeper never expires a session while a lifecycle operation on
\* the same session id has started and not finished.
SweeperExclusion ==
    h.pc # "idle" => h.cid \notin SweepHolds

\* C4: once an operation has ended, a session whose settlement or cashout
\* was applied to the ledger is in neither store: no series settlement and
\* no cashout credits or adjusts the house balance and leaves the session
\* stored.
Atomicity ==
    Quiescent =>
        \A i \in DOMAIN hist :
            hist[i].settled > 0 =>
                hist[i].cid \notin (DOMAIN pending_pvp \cup DOMAIN db_pending)

ScenarioAStep ==
    /\ h.pc = "se_bot"
    /\ h.cid \in DOMAIN db_pending
    /\ db_pending[h.cid].wager = 1000
    /\ db_pending[h.cid].mode = "normal"
    /\ db_pending[h.cid].rolls = 1
    /\ db_pending[h.cid].pts = 1
    /\ db_pending[h.cid].p_pts = 0
    /\ db_pending[h.cid].b_pts = 0
    /\ SeqSum(h.a_rolls) = 6
    /\ h'.pc \in {"se_end", "se_next"}
    /\ last'.b_tot = 3

\* what Scenario A's step does besides the house balance
ScenarioASettles ==
    /\ last'.op = "settle_bot"
    /\ last'.round_win = "p"
    /\ pending_pvp'[h.cid].p_pts = 1
    /\ h'.pc = "se_end"
    /\ hist'[db_pending[h.cid].sid].settled = hist[db_pending[h.cid].sid].settled + 1
    /\ balance' = [balance EXCEPT ![h.user] = @ + 1950]

ScoreBound ==
    \A c \in DOMAIN pending_pvp :
        LET ch == pending_pvp[c]
        IN  /\ Get(ch, "p_pts", 0) < ch.pts /\ Get(ch, "b_pts", 0) < ch.pts
            /\ Get(ch, "p1_pts", 0) < ch.pts /\ Get(ch, "p2_pts", 0) < ch.pts

\* the series of the store that u takes part in and that no terminal effect
\* was applied to: the bot series u plays, and the accepted challenges u is
\* the challenger or the opponent of
ActiveSeries(u) ==
    {c \in DOMAIN pending_pvp :
        /\ hist[pending_pvp[c].sid].terminal = 0
        /\ \/ Get(pending_pvp[c], "player", None) = u
           \/ /\ Get(pending_pvp[c], "opponent", None) # None
              /\ u \in {pending_pvp[c].challenger, pending_pvp[c].opponent}}

StartBotStep == last' # last /\ last'.op = "start_bot"

StartBotRejected ==
    UNCHANGED <<pending_pvp, db_pending, balance, house, hist>>

\* the step debits exactly the wager and stores one new bot series at 0-0
\* with its escrow flag set
StartBotCreated ==
    /\ balance' = [balance EXCEPT ![last'.user] = @ - last'.wager]
    /\ house' = house
    /\ last'.res = "ok"
    /\ last'.cid \notin DOMAIN pending_pvp
    /\ DOMAIN pending_pvp' = DOMAIN pending_pvp \cup {last'.cid}
    /\ \A c \in DOMAIN pending_pvp : pending_pvp'[c] = pending_pvp[c]
    /\ IsBotId(last'.cid)
    /\ pending_pvp'[last'.cid].player = last'.user
    /\ pending_pvp'[last'.cid].wager = last'.wager
    /\ pending_pvp'[last'.cid].p_pts = 0
    /\ pending_pvp'[last'.cid].b_pts = 0
    /\ pending_pvp'[last'.cid].wager_deducted
    /\ db_pending' = pending_pvp'

\* C9 as the code has it: a request with a wager above the balance, or of a
\* player who has a bot series in the store, adds no session and changes no
\* balance; any other request debits exactly the wager and creates a bot
\* series at 0-0 with its escrow flag set.
CreateBotSeries ==
    [][StartBotStep =>
        IF last'.wager > balance[last'.user]
           \/ HasActiveBotGame(pending_pvp, last'.user)
        THEN StartBotRejected /\ last'.res # "ok"
        ELSE StartBotCreated]_vars

\* C9 as the specification states it: only a wager above the balance is
\* refused.
CreateBotSeriesOriginal ==
    [][StartBotStep =>
        IF last'.wager > balance[last'.user]
        THEN StartBotRejected /\ last'.res = "insufficient"
        ELSE StartBotCreated]_vars

\* a request was refused for its wager after a series had been created
CreateBotSeriesWitness ==
    /\ last.op = "start_bot"
    /\ last.res = "insufficient"
    /\ last.wager > balance[last.user]
    /\ Len(hist) > 0
    /\ hist[1].debited = last.wager

\* C10: a cashout request that arrived while a round of its series was in
\* progress is rejected.
MidRoundCashoutRejected ==
    (last.op = "cashout" /\ last.mid) => last.res # "ok"

\* a step in which a cashout request is accepted
CashoutAccepted == h.pc = "idle" /\ h'.pc = "co_msg"

\* C11: a cashout request is accepted only for a v2_bot_ session of the store
\* and only from the session's player; a rejected request (a missing
\* session, a PvP session, another user) changes neither store nor balances.
CashoutAuthorization ==
    [][/\ CashoutAccepted =>
            /\ h'.cid \in DOMAIN pending_pvp
            /\ IsBotId(h'.cid)
            /\ "player" \in DOMAIN pending_pvp[h'.cid]
            /\ pending_pvp[h'.cid].player = h'.user
       /\ (last' # last /\ last'.op = "cashout" /\ last'.res # "ok") =>
            UNCHANGED <<pending_pvp, db_pending, balance, house, hist>>]_vars

\* a cashout request for a stored PvP session was rejected
CashoutAuthorizationWitness ==
    /\ last.op = "cashout"
    /\ last.res = "invalid"
    /\ IsPvpId(last.cid)
    /\ last.cid \in DOMAIN pending_pvp
    /\ last.user \in {pending_pvp[last.cid].challenger, pending_pvp[last.cid].opponent}

\* C12: an accepted cashout credits the player exactly calculate_cashout of
\* the session's current score and changes the house balance by
\* -(amount - wager), and when the cashout operation ends the session is in
\* neither store.
CashoutEffect ==
    [][/\ CashoutAccepted =>
            LET ch == pending_pvp[h'.cid]
                amount == calculate_cashout(ch.p_pts, ch.b_pts, ch.pts, ch.wager)
            IN  /\ balance' = [balance EXCEPT ![h'.user] = @ + amount]
                /\ house' = house - (amount - ch.wager)
       /\ (h.pc = "co_msg" /\ h'.pc = "idle") =>
            h.cid \notin (DOMAIN pending_pvp' \cup DOMAIN db_pending')]_vars

\* C13: calculate_cashout returns a value between 0 and twice the wager.
CashoutBounds ==
    last.op = "calculate_cashout" =>
        /\ 0 <= last.value /\ last.value <= 2 * last.wager
        /\ 0 <= last.value2 /\ last.value2 <= 2 * last.wager

\* calculate_cashout was applied to a score below the target on both sides
\* and to a score at the target
CashoutBoundsWitness ==
    /\ last.op = "calculate_cashout"
    /\ last.p_pts < last.target_pts /\ last.b_pts < last.target_pts
    /\ last.value > 0 /\ last.value < 2 * last.wager
    /\ last.p_pts2 = last.target_pts
    /\ last.value2 = 2 * last.wager

\* both scores of the state are scores of a series with the state's target
ValidScores ==
    /\ last.p_pts <= last.target_pts /\ last.b_pts <= last.target_pts
    /\ last.p_pts2 <= last.target_pts /\ last.b_pts2 <= last.target_pts

\* C14: for a fixed target and wager, a score with a lead at most that of
\* another score has a cashout value at most that of the other score.
MonotonicCashout ==
    (/\ last.op = "calculate_cashout"
     /\ ValidScores
     /\ last.p_pts - last.b_pts <= last.p_pts2 - last.b_pts2)
        => last.value <= last.value2

\* the recurrence P(a,b) = 0.5*P(a-1,b) + 0.5*P(a,b-1), P(0,.) = 1,
\* P(.,0) = 0, as the numerator of P(a,b) over the denominator 2^(a+b)
RECURSIVE PNum(_, _)
PNum(a, b) ==
    IF a = 0 THEN 2 ^ b
    ELSE IF b = 0 THEN 0
    ELSE PNum(a - 1, b) + PNum(a, b - 1)

\* round(n / d, 2) as a set: the nearest cent, or the two cents around an
\* exact half cent
RoundResults(n, d) ==
    IF RoundTie(n, d) THEN {RoundDiv(n, d) - 1, RoundDiv(n, d)}
    ELSE {RoundDiv(n, d)}

\* round(P(a,b) * 2 * wager * 0.95, 2)
RecurrenceValue(a, b, wager) ==
    RoundResults(PNum(a, b) * 2 * wager * 95, (2 ^ (a + b)) * 100)

\* C15: for a non-terminal score where each side needs 1, 2 or 3 points,
\* calculate_cashout returns round(p * 2 * wager * 0.95, 2) with p the
\* recurrence value P(needSelf, needOpp).
CashoutValue ==
    /\ (/\ last.op = "calculate_cashout"
         /\ last.target_pts - last.p_pts \in 1..3
         /\ last.target_pts - last.b_pts \in 1..3)
            => last.value \in RecurrenceValue(last.target_pts - last.p_pts,
                                              last.target_pts - last.b_pts,
                                              last.wager)
    /\ (/\ last.op = "calculate_cashout"
         /\ last.target_pts - last.p_pts2 \in 1..3
         /\ last.target_pts - last.b_pts2 \in 1..3)
            => last.value2 \in RecurrenceValue(last.target_pts - last.p_pts2,
                                               last.target_pts - last.b_pts2,
                                               last.wager)

\* target 3, score 2-1, wager 10.00: p = 0.75 and the amount is 14.25
CashoutValueWitness ==
    /\ last.op = "calculate_cashout"
    /\ last.target_pts = 3 /\ last.p_pts = 2 /\ last.b_pts = 1
    /\ last.wager = 1000
    /\ PNum(1, 2) * 4 = 3 * (2 ^ 3)
    /\ last.value = 1425

\* C16: for a target above 3 and a non-terminal score, the win probability
\* calculate_cashout uses is the recurrence value P(needSelf, needOpp).
CashoutRecurrence ==
    /\ (/\ last.op = "calculate_cashout"
         /\ last.target_pts > 3
         /\ last.p_pts < last.target_pts /\ last.b_pts < last.target_pts)
            => LET a == last.target_pts - last.p_pts
                   b == last.target_pts - last.b_pts
               IN  /\ CashoutProb16(a, b) * (2 ^ (a + b)) = PNum(a, b) * 16
                   /\ last.value \in RecurrenceValue(a, b, last.wager)
    /\ (/\ last.op = "calculate_cashout"
         /\ last.target_pts > 3
         /\ last.p_pts2 < last.target_pts /\ last.b_pts2 < last.target_pts)
            => LET a == last.target_pts - last.p_pts2
                   b == last.target_pts - last.b_pts2
               IN  /\ CashoutProb16(a, b) * (2 ^ (a + b)) = PNum(a, b) * 16
                   /\ last.value2 \in RecurrenceValue(a, b, last.wager)

\* the round winner as the rule states it: "p" is the self side (the player,
\* the challenger), "b" the opponent (the bot, the accepting player)
RoundWinner(mode, selfTotal, opponentTotal) ==
    IF \/ mode = "normal" /\ selfTotal > opponentTotal
       \/ mode = "crazy" /\ selfTotal < opponentTotal
    THEN "p"
    ELSE IF \/ mode = "normal" /\ opponentTotal > selfTotal
            \/ mode = "crazy" /\ opponentTotal < selfTotal
    THEN "b"
    ELSE "none"

\* v2_send_emoji resolves a round of the bot series h.cid
BotRoundResolved ==
    /\ h.pc = "se_bot" /\ h'.pc \in {"se_end", "se_next"}
    /\ h.cid \in DOMAIN pending_pvp

\* generic_v2_pvp_loop i resolves a round
PvpRoundResolved(i) ==
    /\ i \in DOMAIN loops /\ i \in DOMAIN loops'
    /\ loops[i].pc = "poll" /\ loops'[i].pc = "result_msg"

\* C17: the round winner is the self side iff its total is the higher one
\* in normal mode or the lower one in crazy mode, the opponent in the
\* mirrored cases and nobody on equal totals; a win adds one to the
\* winner's score only, a draw changes no score and does not end the series.
RoundResolution ==
    [][/\ BotRoundResolved =>
            LET c == h.cid
                win == RoundWinner(pending_pvp[c].mode, last'.p_tot, last'.b_tot)
            IN  /\ last'.round_win = win
                /\ (win = "none") = (last'.p_tot = last'.b_tot)
                /\ c \in DOMAIN pending_pvp'
                /\ pending_pvp'[c].p_pts
                      = pending_pvp[c].p_pts + (IF win = "p" THEN 1 ELSE 0)
                /\ pending_pvp'[c].b_pts
                      = pending_pvp[c].b_pts + (IF win = "b" THEN 1 ELSE 0)
                /\ win = "none" => h'.pc = "se_next"
       /\ \A i \in 1..MaxLoops : PvpRoundResolved(i) =>
            LET c == loops[i].cid
                ch == pending_pvp[c]
                ch1 == LoopObj(loops'[i], pending_pvp')
                p1_tot == SeqSum(ch.p1_rolls)
                p2_tot == SeqSum(ch.p2_rolls)
                win == RoundWinner(ch.mode, p1_tot, p2_tot)
            IN  /\ (win = "none") = (p1_tot = p2_tot)
                /\ ch1.p1_pts = ch.p1_pts + (IF win = "p" THEN 1 ELSE 0)
                /\ ch1.p2_pts = ch.p2_pts + (IF win = "b" THEN 1 ELSE 0)
                /\ win = "none" => ch1.p1_pts < ch1.pts /\ ch1.p2_pts < ch1.pts
      ]_vars

\* C18: a round is resolved only when each side has contributed exactly
\* rollsPerRound rolls to it: the player's total of a bot round is the sum
\* of the rolls of this attempt, and both buffers of a PvP round hold
\* exactly rollsPerRound rolls.
RoundCompletionGate ==
    [][/\ (h.pc = "se_bot" /\ h'.pc \in {"se_end", "se_next"}) =>
            /\ Len(h.a_rolls) = h.n
            /\ last'.p_tot = SeqSum(h.a_rolls)
       /\ \A i \in 1..MaxLoops : PvpRoundResolved(i) =>
            LET ch == pending_pvp[loops[i].cid]
            IN  /\ Len(ch.p1_rolls) = ch.rolls
                /\ Len(ch.p2_rolls) = ch.rolls
      ]_vars

\* the current-round roll buffers of a stored session
RollBuffers(ch) ==
    IF "p_rolls" \in DOMAIN ch THEN {ch.p_rolls} ELSE {ch.p1_rolls, ch.p2_rolls}

\* C19: every current-round roll buffer of every stored session holds at
\* most rollsPerRound rolls, and the player's buffer is empty after a round
\* resolution that does not end the series.
RoundBufferBound ==
    /\ [](\A c \in DOMAIN pending_pvp :
            \A b \in RollBuffers(pending_pvp[c]) :
                Len(b) <= Get(pending_pvp[c], "rolls", 1))
    /\ [][(h.pc = "se_bot" /\ h'.pc = "se_next") =>
            pending_pvp'[h.cid].p_rolls = <<>>]_vars

\* Every stored PvP session has p1_deducted set, and p2_deducted set once it
\* has an opponent; every stored bot session has wager_deducted set.  A side
\* whose roll handle_emoji_response takes is the challenger or the opponent
\* of the session, so the handler's branch for a first roll without escrow
\* (balance check, debit) is never taken.
EscrowBeforeFirstRoll ==
    \A m \in {pending_pvp, db_pending} : \A c \in DOMAIN m :
        IF IsPvpId(c)
        THEN m[c].p1_deducted /\ (m[c].opponent # None => m[c].p2_deducted)
        ELSE m[c].wager_deducted

\* a dice message never ends with "Insufficient balance" and never debits
FirstRollNeverDebits ==
    [][(last' # last /\ last'.op = "dice") =>
            (last'.res # "insufficient" /\ balance' = balance)]_vars

\* ---------------------------------------------------------------- C21
\* the request the claim is about: an accept of a stored challenge by its
\* creator, or by a user whose balance is below the wager
AcceptToReject(u, c) ==
    /\ c \in DOMAIN pending_pvp
    /\ \/ u = pending_pvp[c].challenger
       \/ balance[u] < pending_pvp[c].wager

\* the step is the accept handler's, called by u for c
AcceptStep(u, c) ==
    /\ HandlerFree
    /\ \/ IsOpenId(c) /\ accept_emoji_pvp_challenge(u, c, queue)
       \/ IsPvpId(c) /\ accept_generic_v2_pvp(u, c, queue)

\* C21: an accept by the challenge's own creator, or by a user whose balance
\* is below the wager, is rejected and leaves the sessions, every balance and
\* the house balance unchanged (open emoji challenges and v2 PvP challenges).
RejectedAccept ==
    [][\A u \in Users, c \in Issued :
          (AcceptToReject(u, c) /\ AcceptStep(u, c))
          => /\ last'.res # "ok"
             /\ UNCHANGED <<pending_pvp, db_pending, balance, house, hist, h,
                            loops>>]_vars

\* both kinds of challenge have seen a rejected accept: the stored open
\* challenge's by a user who cannot cover the wager, or the v2 challenge's
\* by its creator
RejectedAcceptWitness ==
    /\ last.op \in {"accept_open", "accept"}
    /\ last.res \in {"self", "insufficient", "cannot"}
    /\ last.cid \in DOMAIN pending_pvp
    /\ \/ last.user = pending_pvp[last.cid].challenger
       \/ balance[last.user] < pending_pvp[last.cid].wager
    /\ h.pc = "idle"

\* ---------------------------------------------------------------- C22
\* the age of an open challenge: since created_at for an open emoji
\* challenge, since the creation's emoji_wait for a v2 PvP challenge
ChallengeAge(c) ==
    IF IsOpenId(c) THEN now - pending_pvp[c].created_at
    ELSE now - pending_pvp[c].emoji_wait

AcceptEligible(u, c) ==
    /\ c \in DOMAIN pending_pvp
    /\ pending_pvp[c].opponent = None
    /\ ChallengeAge(c) <= DefaultExpiration
    /\ u # pending_pvp[c].challenger
    /\ balance[u] >= pending_pvp[c].wager

\* the session awaits its challenger: the open emoji challenge by its flag,
\* the v2 challenge by the task that asks the challenger to roll first
AwaitsChallenger(mem, ls, c) ==
    IF IsOpenId(c)
    THEN Get(mem[c], "waiting_for_challenger_emoji", FALSE)
         /\ ~Get(mem[c], "waiting_for_emoji", FALSE)
    ELSE /\ ~mem[c].waiting_p2
         /\ \E i \in DOMAIN ls : ls[i].cid = c /\ ls[i].pc # "done"

\* C23: an accept by an eligible opponent debits that opponent exactly the
\* wager and nobody else, and when the accept handler is left the session
\* is stored with the acceptor as its opponent and awaits the challenger.
SuccessfulAccept ==
    /\ [][\A u \in Users, c \in Issued :
            (AcceptEligible(u, c) /\ AcceptStep(u, c))
            => /\ last'.res = "ok"
               /\ balance' = [balance EXCEPT ![u] = @ - pending_pvp[c].wager]]_vars
    /\ [][(h.pc \in {"acc_msg", "oacc_msg"} /\ h'.pc = "idle")
          => /\ h.cid \in DOMAIN pending_pvp'
             /\ pending_pvp'[h.cid].opponent = h.user
             /\ AwaitsChallenger(pending_pvp', loops', h.cid)]_vars

\* ---------------------------------------------------------------- C24
\* the decline handler, having let its caller cancel the challenge, is left
\* without an exception
CancelDone == h.pc = "dec_msg" /\ h'.pc = "idle" /\ nRaises' = nRaises

\* C24: when the creator cancels their own unaccepted challenge, the
\* creator's balance is increased by exactly the escrowed wager and the
\* session is removed from the store.
CancelRefunds ==
    [][(/\ CancelDone
        /\ h.cid \in DOMAIN pending_pvp
        /\ pending_pvp[h.cid].challenger = h.user
        /\ pending_pvp[h.cid].opponent = None)
       => /\ h.cid \notin DOMAIN pending_pvp'
          /\ balance' = [balance EXCEPT ![h.user] = @ + pending_pvp[h.cid].wager]]_vars

\* ---------------------------------------------------------------- C25
\* C25: a cancel request for a stored challenge by a user who is not its
\* creator, or for a challenge that has an opponent, is rejected, with the
\* sessions and all balances unchanged.
CancelAuthorization ==
    [][\A u \in Users, c \in Issued :
          (/\ c \in DOMAIN pending_pvp
           /\ \/ u # pending_pvp[c].challenger
              \/ pending_pvp[c].opponent # None
           /\ HandlerFree
           /\ decline_callback(u, c, queue))
          => /\ last'.res = "refused"
             /\ h'.pc = "idle"
             /\ UNCHANGED <<pending_pvp, db_pending, balance, house>>]_vars

\* ---------------------------------------------------------------- C26
\* the step applies the timeout policy to the stored session of ledger
\* entry i, and to no other session
TimeoutApplied(i) ==
    /\ hist'[i].terminal = hist[i].terminal + 1
    /\ \A j \in DOMAIN hist \ {i} : hist'[j].terminal = hist[j].terminal
    /\ sw' # sw
    /\ hist[i].cid \in DOMAIN pending_pvp

\* the run of the job ends in this step
SweepEnds == sw'.pc = "idle" /\ last'.op = "sweep_end" /\ (sw.pc = "await" \/ nSweeps' # nSweeps)

Staller(c, ch) ==
    IF Get(ch, "opponent", None) = None THEN None
    ELSE IF IsOpenId(c)
    THEN IF Get(ch, "waiting_for_challenger_emoji", FALSE) THEN ch.challenger
         ELSE IF Get(ch, "waiting_for_emoji", FALSE) THEN ch.opponent
         ELSE None
    ELSE IF ~(ch.p1_deducted /\ ch.p2_deducted) THEN None
    ELSE IF ch.waiting_p1 THEN ch.challenger
    ELSE IF ch.waiting_p2 THEN ch.opponent
    ELSE None

PlayerRollsComplete(ch) == Len(ch.p_rolls) >= ch.rolls

\* C28: when a sweep expires a bot series whose player has escrowed (and
\* that is not at the cashout stage), the player is refunded the full wager
\* if the player's rolls for the current round were complete, and nothing
\* otherwise.
BotStallPolicy ==
    [][\A i \in DOMAIN hist :
          (/\ TimeoutApplied(i)
           /\ IsBotId(hist[i].cid)
           /\ Get(pending_pvp[hist[i].cid], "wager_deducted", FALSE)
           /\ ~Get(pending_pvp[hist[i].cid], "waiting_for_cashout", FALSE))
          => LET ch == pending_pvp[hist[i].cid]
                 refund == IF PlayerRollsComplete(ch) THEN ch.wager ELSE 0
             IN  /\ hist'[i].credited = hist[i].credited + refund
                 /\ balance' = [balance EXCEPT ![ch.player] = @ + refund]]_vars

\* ---------------------------------------------------------------- C29
\* a round has been completed, or a roll of the current round submitted
SeriesProgress(ch) ==
    \/ Get(ch, "p_pts", 0) > 0 \/ Get(ch, "b_pts", 0) > 0
    \/ Get(ch, "p1_pts", 0) > 0 \/ Get(ch, "p2_pts", 0) > 0
    \/ Get(ch, "p_rolls", <<>>) # <<>>
    \/ Get(ch, "p1_rolls", <<>>) # <<>> \/ Get(ch, "p2_rolls", <<>>) # <<>>

\* the deadline of a series session
SeriesDeadline(ch) == IF SeriesProgress(ch) THEN ExtendedLimit ELSE DefaultExpiration

\* C29: a sweep expires a series session (bot or PvP) only when the time
\* since its last recorded activity exceeds its deadline: the extended
\* window once a score is above 0 or a round buffer is non-empty, the
\* expiration window otherwise.
DeadlineSelection ==
    [][\A i \in DOMAIN hist :
          (TimeoutApplied(i) /\ (IsBotId(hist[i].cid) \/ IsPvpId(hist[i].cid)))
          => LET ch == pending_pvp[hist[i].cid]
             IN  (sw'.current_time - ch.emoji_wait) > SeriesDeadline(ch)]_vars

\* ---------------------------------------------------------------- C30
\* C30: a sweep does not expire a bot series on which a round was resolved
\* less than the deadline ago (last is the record of that resolution, made
\* at last.at), however long ago the series was created.
NoPrematureExpiry ==
    [][\A i \in DOMAIN hist :
          (/\ TimeoutApplied(i)
           /\ IsBotId(hist[i].cid)
           /\ last.op = "round_bot"
           /\ last.cid = hist[i].cid)
          => (sw'.current_time - last.at)
                > SeriesDeadline(pending_pvp[hist[i].cid])]_vars

\* ---------------------------------------------------------------- C31
\* a run of the job ends in this step, by its deletions or by an exception
SweepLeaves == sw.pc = "await" /\ sw'.pc = "idle"

CreateStores ==
    /\ hist' # hist
    /\ last'.op \in {"create_open", "start_pvp", "start_bot"}
    /\ last'.res = "ok"
UniqueSessionIds ==
    [][CreateStores => last'.cid \notin DOMAIN pending_pvp]_vars

\* C34: a session id that the sweeper, a cashout, a cancel or a settlement
\* has removed from the in-memory store is never in the in-memory store
\* again; a reload of the store from the persisted record does not bring it
\* back.
Removed(c) == hist[c[4]].removed > 0 /\ c \notin DOMAIN pending_pvp
NoResurrection ==
    [][\A c \in Issued : Removed(c) => c \notin DOMAIN pending_pvp']_vars

\* C35: a session holding escrowed funds leaves the in-memory store only by
\* a settlement, a cashout, a cancel or a sweeper expiry, each of which
\* deletes it; no other step (a reload of the store from the persisted
\* record, an operation on another session or of another participant)
\* makes it disappear.
HoldsEscrow(c) == hist[c[4]].debited > 0 /\ hist[c[4]].terminal = 0
NoSilentLoss ==
    [][\A c \in DOMAIN pending_pvp :
          (HoldsEscrow(c) /\ c \notin DOMAIN pending_pvp')
              => hist'[c[4]].removed > hist[c[4]].removed]_vars

\* C36: once a challenge has an opponent, every further accept of it, by any
\* participant, is rejected: nobody is debited by it, and the recorded
\* opponent is never overwritten.
HasOpponent(c) == c \in DOMAIN pending_pvp /\ pending_pvp[c].opponent # None
SingleAcceptance ==
    /\ [][\A u \in Users, c \in Issued :
            (HasOpponent(c) /\ AcceptStep(u, c))
            => last'.res # "ok" /\ UNCHANGED <<balance, hist>>]_vars
    /\ [][\A c \in DOMAIN pending_pvp :
            (HasOpponent(c) /\ c \in DOMAIN pending_pvp')
            => pending_pvp'[c].opponent = pending_pvp[c].opponent]_vars

\* C37: the sweeper never refunds the creator of an open challenge as
\* expired when an acceptor has been debited for that challenge; and when
\* the accept that debited an acceptor ends, the challenge is in the store
\* with that acceptor as its opponent and its creator not refunded.
ExpiredAsOpen(c) ==
    /\ c \in DOMAIN pending_pvp
    /\ IsOpenId(c)
    /\ SweepCase(pending_pvp[c]) = "open"
    /\ sw.pc = "idle" /\ nSweeps' # nSweeps
    /\ hist'[c[4]].credited > hist[c[4]].credited
ExpireVersusAccept ==
    /\ [][\A c \in Issued :
            ExpiredAsOpen(c) => hist[c[4]].debited = pending_pvp[c].wager]_vars
    /\ [][(h.pc = "oacc_msg" /\ h'.pc = "idle" /\ nRaises' = nRaises)
          => /\ h.cid \in DOMAIN pending_pvp'
             /\ pending_pvp'[h.cid].opponent = h.user
             /\ hist'[h.cid[4]].credited = 0]_vars

\* the wagers a stored session holds in escrow: by its flags where the dict
\* has them, else the creator's and, once accepted, the opponent's
SessionEscrow(ch) ==
    IF DOMAIN ch \cap {"wager_deducted", "p1_deducted", "p2_deducted"} # {}
    THEN EscrowFlags(ch) * ch.wager
    ELSE (IF Get(ch, "opponent", None) # None THEN 2 ELSE 1) * ch.wager

RECURSIVE StoreEscrow(_)
StoreEscrow(mem) ==
    IF DOMAIN mem = {} THEN 0
    ELSE LET c == CHOOSE x \in DOMAIN mem : TRUE
         IN  SessionEscrow(mem[c])
             + StoreEscrow([x \in DOMAIN mem \ {c} |-> mem[x]])

Funds(bal, hse, mem) ==
    SeqSum([i \in 1..Cardinality(Users) |-> bal[i]]) + hse + StoreEscrow(mem)

\* C38: the total of all participants' balances, the house balance and the
\* wagers the stored sessions hold in escrow is, after every session
\* operation, what it was before it: whenever no operation is under way the
\* total is the one the program started with.
FundsConserved ==
    Quiescent => Funds(balance, house, pending_pvp) = Funds(InitBalance, 0, <<>>)

====
